---- MODULE Spec2Model ----
(***************************************************************************)
(* Model of the topic router of deno-kv-topics (src/mod.ts): one router    *)
(* instance returned by connectTopicQueue, the Deno KV queue it sits on,   *)
(* and the callers of enqueue / listenQueue / close.                       *)
(*                                                                         *)
(* Strings are sequences of one-character strings, so that getTopicId      *)
(* (JSON.stringify) and the error texts are computed, not assumed.         *)
(***************************************************************************)
EXTENDS Integers, Sequences, FiniteSets, Bags, TLC

VARIABLES
    disableListenQueue, \* the instance's disableListenQueue parameter
    listeners,          \* the Map listeners: topic id -> callback
    closed,             \* kv.close() has been called
    kvListenCalls,      \* number of calls of kv.listenQueue
    staged,             \* the caller's atomic operation: staged enqueues
    msgs,               \* the values the KV queue holds: queued or being dispatched
    thrown,             \* the error the latest step threw, NoError if none
    submitted,          \* the kv.enqueue calls the latest step made
    lastCall,           \* the arguments of the latest step, if it was an enqueue call
    lastListen,         \* the topic key of the latest step, if it was a listenQueue call
    listenCalls,        \* number of listenQueue calls made
    registered,         \* per topic key: the callback of the latest listenQueue
                        \* call for it
    peer                \* a second instance, made by another connectTopicQueue
                        \* call on the same kv: its listeners and latest step

vars == <<disableListenQueue, listeners, closed, kvListenCalls, staged, msgs,
          thrown, submitted, lastCall, lastListen, listenCalls, registered,
          peer>>

(***************************************************************************)
(* Bounds of the model.                                                    *)
(***************************************************************************)
\* listenQueue calls made on the instance.
MaxListens == 3
\* Values the KV queue and the atomic operation hold at a time.
MaxMessages == 1

(***************************************************************************)
(* Values.                                                                 *)
(***************************************************************************)
\* A scalar of a topic key: its type and its text.
StrScalar(chars) == [type |-> "string", text |-> chars]
NumScalar(digits) == [type |-> "number", text |-> digits]
BoolScalar(b) == [type |-> "boolean", text |-> IF b THEN <<"t", "r", "u", "e">>
                                                   ELSE <<"f", "a", "l", "s", "e">>]
\* The numbers that are not finite, named by one token each.
NonFinite == {<<"NaN">>, <<"Infinity">>, <<"-Infinity">>}
NaNScalar == [type |-> "number", text |-> <<"NaN">>]
InfinityScalar == [type |-> "number", text |-> <<"Infinity">>]

\* type Topic = string | (string | number | boolean)[]
StringTopic(chars) == [form |-> "string", items |-> <<StrScalar(chars)>>]
ArrayTopic(items) == [form |-> "array", items |-> items]
\* The topicKey of a raw value that has none.
UndefinedTopic == [form |-> "undefined", items |-> <<>>]

TopicA == StringTopic(<<"a">>)
TopicB == ArrayTopic(<<StrScalar(<<"a">>)>>)
TopicC == ArrayTopic(<<StrScalar(<<"a">>), NumScalar(<<"1">>)>>)
Topics == {TopicA, TopicB}
AllTopics == Topics \cup {TopicC}

\* Topic keys that differ in form, in order or in the type of an element
\* only, keys with numbers that are not finite among them.
TopicKeys ==
    AllTopics \cup
    {StringTopic(<<"1">>),
     StringTopic(<<"[", "\"", "a", "\"", "]">>),
     ArrayTopic(<<NumScalar(<<"1">>)>>),
     ArrayTopic(<<StrScalar(<<"1">>)>>),
     ArrayTopic(<<BoolScalar(TRUE)>>),
     ArrayTopic(<<StrScalar(<<"t", "r", "u", "e">>)>>),
     ArrayTopic(<<NumScalar(<<"1">>), StrScalar(<<"a">>)>>),
     ArrayTopic(<<StrScalar(<<"a">>), StrScalar(<<"1">>)>>),
     ArrayTopic(<<NaNScalar>>),
     ArrayTopic(<<InfinityScalar>>)}

Callbacks == {"h1", "h2"}
\* Payloads and options values are opaque to the router; "undefined" is the
\* omitted options argument, EmptyOptions its default.
EmptyOptions == "{}"
Payloads == {"p1", "p2"}

\* The calls of enqueue that are tried, for every topic: without options and
\* with, without an atomic operation and with one, and with each answer
\* kv.enqueue can give.
EnqueueCalls ==
    {[payload |-> "p1", options |-> "undefined", atomic |-> FALSE, answer |-> "ok"],
     [payload |-> "p1", options |-> "undefined", atomic |-> FALSE, answer |-> "notok"],
     [payload |-> "p2", options |-> "{delay:1}", atomic |-> TRUE, answer |-> "ok"],
     [payload |-> "p2", options |-> "{delay:1}", atomic |-> FALSE, answer |-> "notok"],
     [payload |-> "p2", options |-> "{delay:1}", atomic |-> FALSE, answer |-> "throws"]}

NoError == <<>>
NoCallback == "none"
NoPayload == "none"

(***************************************************************************)
(* getTopicId: JSON.stringify of a topic key, character by character.      *)
(***************************************************************************)
RECURSIVE JsonEscape(_)
JsonEscape(chars) ==
    IF chars = <<>> THEN <<>>
    ELSE LET c == Head(chars)
         IN  (IF c = "\"" \/ c = "\\" THEN <<"\\", c>> ELSE <<c>>)
             \o JsonEscape(Tail(chars))

JsonString(chars) == <<"\"">> \o JsonEscape(chars) \o <<"\"">>

\* JSON.stringify writes a number that is not finite as null.
JsonScalar(x) ==
    IF x.type = "string" THEN JsonString(x.text)
    ELSE IF x.type = "number" /\ x.text \in NonFinite THEN <<"n", "u", "l", "l">>
    ELSE x.text

RECURSIVE JsonItems(_)
JsonItems(items) ==
    IF items = <<>> THEN <<>>
    ELSE IF Len(items) = 1 THEN JsonScalar(items[1])
    ELSE JsonScalar(Head(items)) \o <<",">> \o JsonItems(Tail(items))

\* JSON.stringify(undefined) is undefined, which a template literal prints
\* as the word; no topic id built from characters equals this one token.
getTopicId(topicKey) ==
    CASE topicKey.form = "string" -> JsonScalar(topicKey.items[1])
      [] topicKey.form = "array" -> <<"[">> \o JsonItems(topicKey.items) \o <<"]">>
      [] OTHER -> <<"undefined">>

(***************************************************************************)
(* The errors the router throws, as texts.                                 *)
(***************************************************************************)
NoListenerError(queueId) == <<"No listener for queue ">> \o queueId
EnqueueFailedError(queueId) == <<"Failed to enqueue into ">> \o queueId
UnrecognisedError == <<"Unrecognised payload format">>
\* What a failing kv.enqueue or a failing listener throws is theirs, not the
\* router's.
KvThrown == <<"kv.enqueue threw">>
ListenerThrown == <<"listener threw">>

\* The text `whole` ends with the text `part`.
EndsWith(whole, part) ==
    /\ Len(part) <= Len(whole)
    /\ SubSeq(whole, Len(whole) - Len(part) + 1, Len(whole)) = part

(***************************************************************************)
(* The wrapped payload and the raw values of the queue.                    *)
(***************************************************************************)
\* __mieszko_topics__ is <<1>> for the number 1 and <<>> when absent.
Marker == <<1>>

WrapPayloadWithoutPayload(topicKey, payload) ==
    [topicKey |-> topicKey, payload |-> NoPayload, marker |-> Marker]

WrapPayloadWithId(topicKey, payload) ==
    [topicKey |-> StringTopic(getTopicId(topicKey)), payload |-> payload,
     marker |-> Marker]

\* The value enqueue hands to the queue.
WrapPayload(topicKey, payload) ==
    [topicKey |-> topicKey, payload |-> payload, marker |-> Marker]

\* Values a producer that bypasses the router may put on the queue: one
\* with no field of the format, one in the format, one marked otherwise.
RawValues ==
    {[topicKey |-> UndefinedTopic, payload |-> NoPayload, marker |-> <<>>],
     [topicKey |-> TopicA, payload |-> "p2", marker |-> <<1>>],
     [topicKey |-> TopicA, payload |-> "p2", marker |-> <<2>>]}

(***************************************************************************)
(* Map operations.                                                         *)
(***************************************************************************)
MapSetAlone(map, key, value) == [k \in {key} |-> value]

MapSetKeepsFirst(map, key, value) ==
    [k \in DOMAIN map \cup {key} |-> IF k \in DOMAIN map THEN map[k] ELSE value]

\* Map.set: a new entry, or a new value for the entry the key has.
MapSet(map, key, value) ==
    [k \in DOMAIN map \cup {key} |-> IF k = key THEN value ELSE map[k]]
MapHas(map, key) == key \in DOMAIN map
\* Map.get gives undefined for a missing key.
MapGet(map, key) == IF key \in DOMAIN map THEN map[key] ELSE NoCallback
MapSize(map) == Cardinality(DOMAIN map)
EmptyMap == [k \in {} |-> NoCallback]

(***************************************************************************)
(* Initial state: connectTopicQueue has returned.                          *)
(***************************************************************************)
\* lastCall when the latest step was no enqueue call.
NoCall == [topicKey |-> UndefinedTopic, payload |-> NoPayload,
           options |-> "undefined", atomic |-> FALSE]

\* The second instance when it has done nothing: its Map listeners, its
\* calls of kv.listenQueue and of listenQueue, the callback of the latest
\* listenQueue call per topic key, and of its latest step the topic key
\* enqueue was called with, the error thrown and the listener called.
NoPeer ==
    [listeners |-> EmptyMap, kvListenCalls |-> 0, listenCalls |-> 0,
     registered |-> EmptyMap, asked |-> UndefinedTopic, thrown |-> NoError,
     called |-> NoCallback]

Init ==
    /\ disableListenQueue \in BOOLEAN
    /\ listeners = EmptyMap
    /\ closed = FALSE
    /\ kvListenCalls = 0
    /\ staged = <<>>
    /\ msgs = EmptyBag
    /\ thrown = NoError
    /\ submitted = <<>>
    /\ lastCall = NoCall
    /\ lastListen = UndefinedTopic
    /\ listenCalls = 0
    /\ registered = EmptyMap
    /\ peer = NoPeer

(***************************************************************************)
(* listenQueue(topicKey, callback)                                         *)
(***************************************************************************)
\* The early return before kv.listenQueue.
SkipsSubscribeOffByOne(size, disabled) == size > 2 \/ disabled
SkipsSubscribeFromFirst(size, disabled) == size >= 1 \/ disabled
SkipsSubscribeIgnoresDisabled(size, disabled) == size > 1
SkipsSubscribe(size, disabled) == size > 1 \/ disabled

listenQueue(topicKey, callback) ==
    LET queueId == getTopicId(topicKey)
        set == MapSet(listeners, queueId, callback)
    IN  /\ listenCalls < MaxListens
        /\ listeners' = set
        /\ kvListenCalls' = IF SkipsSubscribe(MapSize(set), disableListenQueue)
                            THEN kvListenCalls
                            ELSE kvListenCalls + 1
        /\ listenCalls' = listenCalls + 1
        /\ registered' = [k \in DOMAIN registered \cup {topicKey} |->
                             IF k = topicKey THEN callback ELSE registered[k]]
        /\ thrown' = NoError
        /\ submitted' = <<>>
        /\ lastCall' = NoCall
        /\ lastListen' = topicKey
        /\ UNCHANGED peer
        /\ UNCHANGED <<disableListenQueue, closed, staged, msgs>>

(***************************************************************************)
(* enqueue(topicKey, payload, options, atomic)                             *)
(***************************************************************************)
DefaultOptionsAlways(optionsArg) == EmptyOptions

\* options = {} when the argument is omitted.
DefaultOptions(optionsArg) ==
    IF optionsArg = "undefined" THEN EmptyOptions ELSE optionsArg

\* The pre-check of enqueue.
HasListenerUnchecked(queueId) == TRUE
HasListener(queueId) == MapHas(listeners, queueId)

\* What kv.enqueue may answer: ok, not ok, or an exception; a closed kv
\* accepts nothing.
KvResults == IF closed THEN {"notok", "throws"} ELSE {"ok", "notok", "throws"}

SubmitErrorIgnoresAnswer(kvResult, queueId) ==
    IF kvResult = "throws" THEN KvThrown ELSE NoError

\* The error enqueue throws after kv.enqueue answered, or NoError.
SubmitError(kvResult, queueId) ==
    CASE kvResult = "ok" -> NoError
      [] kvResult = "notok" -> EnqueueFailedError(queueId)
      [] OTHER -> KvThrown

\* Room for one more value in the queue, the staged ones counted.
Room == BagCardinality(msgs) + Len(staged) < MaxMessages

\* How a value came to the queue: by enqueue with an atomic operation
\* ("atomic") or without one ("direct"), with the topic key and the payload
\* enqueue was called with and, when kv.enqueue accepted it there and then,
\* the listener the topic had; or from a producer that bypasses the router
\* ("raw").
Origin(via, topicKey, payload) ==
    [via |-> via, topicKey |-> topicKey, payload |-> payload,
     listener |-> IF via = "direct"
                  THEN MapGet(listeners, getTopicId(topicKey))
                  ELSE NoCallback]
RawOrigin ==
    [via |-> "raw", topicKey |-> UndefinedTopic, payload |-> NoPayload,
     listener |-> NoCallback]

\* A value the queue has just accepted. While the callback awaits a listener,
\* callback and arg are that listener and its argument. invoked tells whether
\* a listener was ever called for the value, failed whether one threw.
Message(value, origin) ==
    [value |-> value, origin |-> origin, state |-> "queued",
     callback |-> NoCallback, arg |-> NoPayload, invoked |-> FALSE,
     failed |-> FALSE]

enqueue(topicKey, payload, optionsArg, useAtomic, kvResult) ==
    LET queueId == getTopicId(topicKey)
        options == DefaultOptions(optionsArg)
        wrappedPayload == WrapPayload(topicKey, payload)
        kvCall == [value |-> wrappedPayload, options |-> options,
                   answer |-> kvResult]
    IN  /\ lastCall' = [topicKey |-> topicKey, payload |-> payload,
                        options |-> optionsArg, atomic |-> useAtomic]
        /\ lastListen' = UndefinedTopic
        /\ UNCHANGED peer
        /\ IF ~HasListener(queueId)
           THEN /\ thrown' = NoListenerError(queueId)
                /\ submitted' = <<>>
                /\ UNCHANGED <<staged, msgs>>
           ELSE IF useAtomic
           THEN /\ Room
                /\ staged' = Append(staged, [value |-> wrappedPayload,
                                             options |-> options,
                                             origin |-> Origin("atomic", topicKey,
                                                               payload)])
                /\ thrown' = NoError
                /\ submitted' = <<>>
                /\ UNCHANGED msgs
           ELSE /\ kvResult \in KvResults
                /\ submitted' = <<kvCall>>
                /\ thrown' = SubmitError(kvResult, queueId)
                /\ IF kvResult = "ok"
                   THEN /\ Room
                        /\ msgs' = msgs (+) SetToBag({Message(
                                    wrappedPayload,
                                    Origin("direct", topicKey, payload))})
                   ELSE UNCHANGED msgs
                /\ UNCHANGED staged
        /\ UNCHANGED <<disableListenQueue, listeners, closed, kvListenCalls,
                       listenCalls, registered>>

(***************************************************************************)
(* close()                                                                 *)
(***************************************************************************)
close ==
    /\ closed' = TRUE
    /\ thrown' = NoError
    /\ submitted' = <<>>
    /\ lastCall' = NoCall
    /\ lastListen' = UndefinedTopic
    /\ UNCHANGED peer
    /\ UNCHANGED <<disableListenQueue, listeners, kvListenCalls, staged, msgs,
                   listenCalls, registered>>

(***************************************************************************)
(* The caller's atomic operation and producers that bypass the router.     *)
(***************************************************************************)
RECURSIVE Accept(_, _)
\* The queue with the staged values accepted.
Accept(entries, held) ==
    IF entries = <<>> THEN held
    ELSE Accept(Tail(entries),
                held (+) SetToBag({Message(Head(entries).value,
                                           Head(entries).origin)}))

\* atomic.commit(): the staged enqueues reach the queue together.
atomicCommit ==
    /\ staged # <<>>
    /\ ~closed
    /\ msgs' = Accept(staged, msgs)
    /\ staged' = <<>>
    /\ thrown' = NoError
    /\ submitted' = <<>>
    /\ lastCall' = NoCall
    /\ lastListen' = UndefinedTopic
    /\ UNCHANGED peer
    /\ UNCHANGED <<disableListenQueue, listeners, closed, kvListenCalls,
                   listenCalls, registered>>

\* The caller drops the atomic operation without committing it.
atomicDiscard ==
    /\ staged # <<>>
    /\ staged' = <<>>
    /\ thrown' = NoError
    /\ submitted' = <<>>
    /\ lastCall' = NoCall
    /\ lastListen' = UndefinedTopic
    /\ UNCHANGED peer
    /\ UNCHANGED <<disableListenQueue, listeners, closed, kvListenCalls, msgs,
                   listenCalls, registered>>

\* kv.enqueue(value) called directly, not through the router.
rawEnqueue(value) ==
    /\ ~closed
    /\ Room
    /\ msgs' = msgs (+) SetToBag({Message(value, RawOrigin)})
    /\ thrown' = NoError
    /\ submitted' = <<>>
    /\ lastCall' = NoCall
    /\ lastListen' = UndefinedTopic
    /\ UNCHANGED peer
    /\ UNCHANGED <<disableListenQueue, listeners, closed, kvListenCalls, staged,
                   listenCalls, registered>>

(***************************************************************************)
(* The callback given to kv.listenQueue.                                   *)
(***************************************************************************)
\* The format check.
RecognisedIfMarked(value) == value.marker # <<>>
Recognised(value) == value.marker = Marker

DispatchIgnoresUnknown(value) ==
    IF ~Recognised(value)
    THEN [error |-> UnrecognisedError, callback |-> NoCallback, arg |-> NoPayload]
    ELSE [error |-> NoError,
          callback |-> MapGet(listeners, getTopicId(value.topicKey)),
          arg |-> value.payload]

DispatchFirstListener(value) ==
    IF ~Recognised(value)
    THEN [error |-> UnrecognisedError, callback |-> NoCallback, arg |-> NoPayload]
    ELSE LET queueId == getTopicId(value.topicKey)
         IN  IF MapHas(listeners, queueId)
             THEN [error |-> NoError,
                   callback |-> listeners[CHOOSE k \in DOMAIN listeners : TRUE],
                   arg |-> value.payload]
             ELSE [error |-> NoListenerError(queueId), callback |-> NoCallback,
                   arg |-> NoPayload]

\* The callback up to its await: the error it throws (NoError if none), and
\* the listener it calls with the payload (NoCallback if none).
Dispatch(value) ==
    IF ~Recognised(value)
    THEN [error |-> UnrecognisedError, callback |-> NoCallback, arg |-> NoPayload]
    ELSE LET queueId == getTopicId(value.topicKey)
             listener == MapGet(listeners, queueId)
         IN  IF listener # NoCallback
             THEN [error |-> NoError, callback |-> listener, arg |-> value.payload]
             ELSE [error |-> NoListenerError(queueId), callback |-> NoCallback,
                   arg |-> NoPayload]

\* The queue after a run of the callback for m that threw: it delivers m
\* again, or gives m up, as its retry policy has it.
Redeliver(m, again) ==
    IF again /\ ~closed
    THEN SetToBag({[m EXCEPT !.state = "queued", !.callback = NoCallback,
                             !.arg = NoPayload]})
    ELSE EmptyBag

\* The queue delivers m, one value at a time: the callback runs up to its
\* await.
deliver(m, again) ==
    LET run == Dispatch(m.value)
    IN  /\ BagIn(m, msgs)
        /\ m.state = "queued"
        /\ ~closed
        /\ kvListenCalls >= 1
        /\ \A x \in BagToSet(msgs) : x.state = "queued"
        /\ thrown' = run.error
        /\ submitted' = <<>>
        /\ lastCall' = NoCall
        /\ lastListen' = UndefinedTopic
        /\ UNCHANGED peer
        /\ IF run.error # NoError
           THEN msgs' = (msgs (-) SetToBag({m})) (+) Redeliver(m, again)
           ELSE msgs' = (msgs (-) SetToBag({m})) (+)
                        SetToBag({[m EXCEPT !.state = "running",
                                            !.callback = run.callback,
                                            !.arg = run.arg,
                                            !.invoked = TRUE]})
        /\ UNCHANGED <<disableListenQueue, listeners, closed, kvListenCalls,
                       staged, listenCalls, registered>>

SettleErrorSwallowed(throws) == NoError

\* What the callback throws when the awaited listener has settled.
SettleError(throws) == IF throws THEN ListenerThrown ELSE NoError

\* The awaited listener returns or throws, and the callback with it.
listenerSettles(m, throws, again) ==
    /\ BagIn(m, msgs)
    /\ m.state = "running"
    /\ thrown' = SettleError(throws)
    /\ submitted' = <<>>
    /\ lastCall' = NoCall
    /\ lastListen' = UndefinedTopic
    /\ UNCHANGED peer
    /\ msgs' = IF SettleError(throws) # NoError
               THEN (msgs (-) SetToBag({m}))
                    (+) Redeliver([m EXCEPT !.failed = m.failed \/ throws], again)
               ELSE msgs (-) SetToBag({m})
    /\ UNCHANGED <<disableListenQueue, listeners, closed, kvListenCalls, staged,
                   listenCalls, registered>>

(***************************************************************************)
(* A second instance on the same kv.                                       *)
(***************************************************************************)
PeerCallbacks == {"g1"}

SharedListeners == listeners

\* The Map listeners of the second instance: each connectTopicQueue call
\* makes its own.
PeerListeners == peer.listeners

\* A step of the second instance is none of the first.
PeerStep ==
    /\ thrown' = NoError
    /\ submitted' = <<>>
    /\ lastCall' = NoCall
    /\ lastListen' = UndefinedTopic
    /\ UNCHANGED <<disableListenQueue, listeners, closed, kvListenCalls, staged,
                   listenCalls, registered>>

\* listenQueue(topicKey, callback) on the second instance, listening enabled.
peerListenQueue(topicKey, callback) ==
    LET queueId == getTopicId(topicKey)
        set == MapSet(PeerListeners, queueId, callback)
    IN  /\ peer.listenCalls < MaxListens
        /\ peer' = [peer EXCEPT
                       !.listeners = set,
                       !.kvListenCalls = IF SkipsSubscribe(MapSize(set), FALSE)
                                         THEN @ ELSE @ + 1,
                       !.listenCalls = @ + 1,
                       !.registered = [k \in DOMAIN @ \cup {topicKey} |->
                                          IF k = topicKey THEN callback ELSE @[k]],
                       !.asked = UndefinedTopic,
                       !.thrown = NoError,
                       !.called = NoCallback]
        /\ UNCHANGED msgs
        /\ PeerStep

\* enqueue(topicKey, payload) on the second instance, kv.enqueue answering ok.
peerEnqueue(topicKey, payload) ==
    LET queueId == getTopicId(topicKey)
        found == MapHas(PeerListeners, queueId)
    IN  /\ ~closed
        /\ peer' = [peer EXCEPT
                       !.asked = topicKey,
                       !.thrown = IF found THEN NoError
                                  ELSE NoListenerError(queueId),
                       !.called = NoCallback]
        /\ IF found
           THEN /\ Room
                /\ msgs' = msgs (+) SetToBag({Message(
                                WrapPayload(topicKey, payload),
                                [via |-> "peer", topicKey |-> topicKey,
                                 payload |-> payload, listener |-> NoCallback])})
           ELSE UNCHANGED msgs
        /\ PeerStep

\* The callback of the second instance, up to its await.
PeerDispatch(value) ==
    IF ~Recognised(value)
    THEN [error |-> UnrecognisedError, callback |-> NoCallback]
    ELSE LET queueId == getTopicId(value.topicKey)
             listener == MapGet(PeerListeners, queueId)
         IN  IF listener # NoCallback
             THEN [error |-> NoError, callback |-> listener]
             ELSE [error |-> NoListenerError(queueId), callback |-> NoCallback]

\* The queue delivers m to the callback of the second instance, whose
\* listener, if one is called, returns; a value whose run threw is given up.
peerDeliver(m) ==
    LET run == PeerDispatch(m.value)
    IN  /\ BagIn(m, msgs)
        /\ m.state = "queued"
        /\ ~closed
        /\ peer.kvListenCalls >= 1
        /\ \A x \in BagToSet(msgs) : x.state = "queued"
        /\ peer' = [peer EXCEPT !.asked = UndefinedTopic,
                                 !.thrown = run.error,
                                 !.called = run.callback]
        /\ msgs' = msgs (-) SetToBag({m})
        /\ PeerStep

(***************************************************************************)
(* The specification.                                                      *)
(***************************************************************************)
Next ==
    \/ \E k \in Topics, h \in Callbacks : listenQueue(k, h)
    \/ \E k \in Topics, c \in EnqueueCalls :
          enqueue(k, c.payload, c.options, c.atomic, c.answer)
    \/ close
    \/ atomicCommit
    \/ atomicDiscard
    \/ \E v \in RawValues : rawEnqueue(v)
    \/ \E m \in BagToSet(msgs), g \in BOOLEAN : deliver(m, g)
    \/ \E m \in BagToSet(msgs) :
          \/ listenerSettles(m, FALSE, FALSE)
          \/ \E g \in BOOLEAN : listenerSettles(m, TRUE, g)

Spec == Init /\ [][Next]_vars

\* The router's registrations alone, over one more topic.
ListenNext ==
    \/ \E k \in AllTopics, h \in Callbacks : listenQueue(k, h)
    \/ close

ListenSpec == Init /\ [][ListenNext]_vars

\* listenQueue over the topic keys that put getTopicId to the test.
IdNext == \E k \in TopicKeys, h \in Callbacks : listenQueue(k, h)

IdSpec == Init /\ [][IdNext]_vars

\* A value's way from enqueue to its listener, over topic keys of every
\* form: a string, one that reads like an array, arrays of each scalar type.
RoundKeys ==
    {TopicA,
     TopicC,
     StringTopic(<<"[", "\"", "a", "\"", "]">>),
     ArrayTopic(<<NumScalar(<<"1">>), StrScalar(<<"a">>)>>),
     ArrayTopic(<<BoolScalar(TRUE)>>),
     ArrayTopic(<<NaNScalar>>)}

RoundNext ==
    \/ \E k \in RoundKeys : listenQueue(k, "h1")
    \/ \E k \in RoundKeys : enqueue(k, "p1", "undefined", FALSE, "ok")
    \/ \E m \in BagToSet(msgs) : deliver(m, FALSE)
    \/ \E m \in BagToSet(msgs) : listenerSettles(m, FALSE, FALSE)

RoundSpec == Init /\ [][RoundNext]_vars

\* Two instances on one kv: both register and enqueue, and the queue
\* delivers to the callback of either.
PairNext ==
    \/ \E k \in Topics, h \in Callbacks : listenQueue(k, h)
    \/ \E k \in Topics : enqueue(k, "p1", "undefined", FALSE, "ok")
    \/ \E m \in BagToSet(msgs) : deliver(m, FALSE)
    \/ \E m \in BagToSet(msgs) : listenerSettles(m, FALSE, FALSE)
    \/ \E k \in Topics, g \in PeerCallbacks : peerListenQueue(k, g)
    \/ \E k \in Topics : peerEnqueue(k, "p2")
    \/ \E m \in BagToSet(msgs) : peerDeliver(m)

PairSpec == Init /\ [][PairNext]_vars

\* The queue delivers every value it holds while kv is open and listened to,
\* whatever else it delivers meanwhile, and every listener settles.
DeliverFrom(topicKey, payload) ==
    \E m \in BagToSet(msgs), g \in BOOLEAN :
        /\ m.origin.topicKey = topicKey
        /\ m.origin.payload = payload
        /\ deliver(m, g)

Settle ==
    \E m \in BagToSet(msgs), t \in BOOLEAN, g \in BOOLEAN : listenerSettles(m, t, g)

FairSpec ==
    /\ Spec
    /\ \A k \in Topics, p \in Payloads : SF_vars(DeliverFrom(k, p))
    /\ WF_vars(Settle)


(***************************************************************************)
(* Properties.                                                             *)
(***************************************************************************)
\* The topic ids listenQueue has been called for.
CalledIds == {getTopicId(k) : k \in DOMAIN registered}

\* The latest step was an enqueue call, for a topic that has a listener.
EnqueuedRegistered ==
    /\ lastCall # NoCall
    /\ getTopicId(lastCall.topicKey) \in CalledIds

\* The values whose listener is being awaited.
Running(bag) == {m \in BagToSet(bag) : m.state = "running"}

\* C1: with listening enabled, once listenQueue has been called N >= 1 times,
\* each time for another topic key, kv.listenQueue has been called exactly once.
C1_SingleSubscription ==
    (/\ ~disableListenQueue
     /\ listenCalls >= 1
     /\ Cardinality(DOMAIN registered) = listenCalls)
    => kvListenCalls = 1

C1_Witness ==
    /\ ~disableListenQueue
    /\ listenCalls = 3
    /\ DOMAIN registered = AllTopics
    /\ kvListenCalls = 1

\* C2: only the first listenQueue call on an instance calls kv.listenQueue; a
\* later call, also one for a topic key registered before, never does.
C2_OnlyFirstCallSubscribes ==
    [][listenCalls >= 1 => kvListenCalls' = kvListenCalls]_vars

\* C3: enqueue for a topic key that no listenQueue call has named throws the
\* "No listener" error ending in the topic id, and sends nothing: no
\* kv.enqueue, nothing staged in the atomic operation, listeners unchanged.
C3_EnqueueWithoutListener ==
    [][(lastCall' # NoCall /\ getTopicId(lastCall'.topicKey) \notin CalledIds)
       => /\ thrown' = NoListenerError(getTopicId(lastCall'.topicKey))
          /\ EndsWith(thrown', getTopicId(lastCall'.topicKey))
          /\ submitted' = <<>>
          /\ UNCHANGED <<msgs, staged, listeners>>]_vars

C3_Witness ==
    /\ TopicB \notin DOMAIN registered
    /\ TopicA \in DOMAIN registered
    /\ lastCall # NoCall
    /\ lastCall.topicKey = TopicB
    /\ thrown = NoListenerError(getTopicId(TopicB))

C5_UnrecognisedRejected ==
    [][\A m \in BagToSet(msgs), g \in BOOLEAN :
          (m.value.marker # <<1>> /\ deliver(m, g))
          => /\ thrown' = <<"Unrecognised payload format">>
             /\ Running(msgs') = {}]_vars

C5_Witness ==
    /\ thrown = <<"Unrecognised payload format">>
    /\ DOMAIN registered = {TopicA}
    /\ \E m \in BagToSet(msgs) : m.value.marker = <<2>> /\ m.value.topicKey = TopicA

\* C6: delivering a value in the format (marker 1) for a topic id without a
\* listener makes the callback throw the "No listener" error ending in that
\* id, and no listener, of whatever topic, is called.
C6_OrphanRejected ==
    [][\A m \in BagToSet(msgs), g \in BOOLEAN :
          (/\ m.value.marker = <<1>>
           /\ getTopicId(m.value.topicKey) \notin CalledIds
           /\ deliver(m, g))
          => /\ thrown' = NoListenerError(getTopicId(m.value.topicKey))
             /\ EndsWith(thrown', getTopicId(m.value.topicKey))
             /\ Running(msgs') = {}]_vars

C6_Witness ==
    /\ thrown = NoListenerError(getTopicId(TopicA))
    /\ lastCall = NoCall
    /\ DOMAIN registered = {TopicB}
    /\ \E m \in BagToSet(msgs) : m.value.marker = <<1>> /\ m.value.topicKey = TopicA

\* C7: enqueue with an atomic operation, for a topic that has a listener,
\* stages exactly one value in it, in the format, for that topic and with the
\* caller's payload; it calls no kv.enqueue, throws nothing and leaves the queue
\* as it is: the value reaches the queue when the caller commits.
C7_AtomicStagesOnly ==
    [][(EnqueuedRegistered' /\ lastCall'.atomic)
       => /\ Len(staged') = Len(staged) + 1
          /\ SubSeq(staged', 1, Len(staged)) = staged
          /\ LET entry == staged'[Len(staged')]
             IN  /\ entry.value.payload = lastCall'.payload
                 /\ entry.value.topicKey = lastCall'.topicKey
                 /\ entry.value.marker = <<1>>
          /\ submitted' = <<>>
          /\ thrown' = NoError
          /\ msgs' = msgs]_vars

C7_Witness ==
    /\ EnqueuedRegistered
    /\ lastCall.atomic
    /\ lastCall.payload = "p2"
    /\ Len(staged) = 1
    /\ staged[1].value.payload = "p2"
    /\ msgs = EmptyBag

\* C8: when enqueue without an atomic operation, for a topic that has a
\* listener, gets ok = false from kv.enqueue, it throws the "Failed to enqueue"
\* error ending in the topic id, having called kv.enqueue exactly once.
C8_EnqueueFailed ==
    [][(/\ EnqueuedRegistered'
        /\ ~lastCall'.atomic
        /\ \E i \in 1..Len(submitted') : submitted'[i].answer = "notok")
       => /\ thrown' = EnqueueFailedError(getTopicId(lastCall'.topicKey))
          /\ EndsWith(thrown', getTopicId(lastCall'.topicKey))
          /\ Len(submitted') = 1
          /\ msgs' = msgs]_vars

C8_Witness ==
    /\ EnqueuedRegistered
    /\ ~lastCall.atomic
    /\ lastCall.topicKey = TopicB
    /\ Len(submitted) = 1
    /\ submitted[1].answer = "notok"
    /\ thrown = EnqueueFailedError(getTopicId(TopicB))

\* C9: enqueue for a topic that has a listener hands its options argument on
\* as it is, to kv.enqueue or, with an atomic operation, to atomic.enqueue; an
\* omitted argument is handed on as {}.
C9_OptionsPassedOn ==
    [][EnqueuedRegistered'
       => LET expected == IF lastCall'.options = "undefined" THEN "{}"
                          ELSE lastCall'.options
          IN  IF lastCall'.atomic
              THEN /\ Len(staged') = Len(staged) + 1
                   /\ staged'[Len(staged')].options = expected
              ELSE /\ Len(submitted') = 1
                   /\ submitted'[1].options = expected]_vars

C9_Witness ==
    /\ EnqueuedRegistered
    /\ ~lastCall.atomic
    /\ lastCall.options = "{delay:1}"
    /\ Len(submitted) = 1
    /\ submitted[1].options = "{delay:1}"

\* The values enqueue has put on the queue without an atomic operation, for
\* topicKey and with payload, that are in the given state.
Direct(topicKey, payload, state) ==
    {m \in BagToSet(msgs) : /\ m.origin.via = "direct"
                            /\ m.origin.topicKey = topicKey
                            /\ m.origin.payload = payload
                            /\ m.state = state}

\* C10 as stated: when no listener has failed for a value that enqueue(K, P)
\* put on the queue and the one listener called for it returns, so that the
\* value leaves the queue for good, that listener is h, the one K had when
\* enqueue was called, and it was called with P.
C10_EnqueueTimeListenerInvoked ==
    [][\A m \in Running(msgs) :
          (/\ m.origin.via = "direct"
           /\ ~m.failed
           /\ listenerSettles(m, FALSE, FALSE))
          => (m.callback = m.origin.listener /\ m.arg = m.origin.payload)]_vars

\* C10 amended: with listening enabled, a value that enqueue(K, P) put on the
\* queue without an atomic operation leads to the listener then registered for
\* K being called with P, unless close() comes first; and a value is delivered
\* again after a listener was called for it only if a listener threw, so it is
\* called once for a value whose listener does not fail.
C10_EventuallyInvokedOnce ==
    /\ \A k \in Topics, p \in Payloads :
          (~disableListenQueue /\ Direct(k, p, "queued") # {})
          ~> (\/ closed
              \/ \E m \in Direct(k, p, "running") :
                    /\ m.callback = registered[k]
                    /\ m.arg = p)
    /\ [](\A m \in BagToSet(msgs) :
             (m.origin.via = "direct" /\ m.state = "queued" /\ m.invoked)
             => m.failed)

C10_Witness ==
    /\ ~disableListenQueue
    /\ ~closed
    /\ \E m \in Direct(TopicA, "p1", "running") :
          /\ m.callback = registered[TopicA]
          /\ m.callback # m.origin.listener
          /\ m.arg = "p1"
          /\ ~m.failed

\* C11: listeners holds one listener per topic id, the one of the latest
\* listenQueue call for the topic; no listenQueue call throws; and a value
\* delivered for a topic is handed to that latest listener, not to one it
\* replaced.
C11_LastRegistrationWins ==
    /\ [](\A k \in DOMAIN registered :
             MapGet(listeners, getTopicId(k)) = registered[k])
    /\ [][listenCalls' = listenCalls + 1 => thrown' = NoError]_vars
    /\ [][\A m \in Running(msgs') \ Running(msgs) :
             m.value.topicKey \in DOMAIN registered
             => m.callback = registered[m.value.topicKey]]_vars

C11_Witness ==
    /\ listenCalls = 2
    /\ DOMAIN registered = {TopicA}
    /\ \E m \in Running(msgs) :
          /\ m.value.topicKey = TopicA
          /\ m.origin.listener = "h1"
          /\ m.callback = "h2"

\* C12: once the callback has called a listener for a value, the value stays
\* with the callback until the listener settles; when the listener throws,
\* the callback throws the listener's error, and only when the listener
\* returns does the callback return and the value leave the queue as done.
C12_CallbackAwaitsListener ==
    [][\A m \in Running(msgs) :
          /\ \/ BagIn(m, msgs')
             \/ \E t \in BOOLEAN, g \in BOOLEAN : listenerSettles(m, t, g)
          /\ (\E g \in BOOLEAN : listenerSettles(m, TRUE, g))
             => /\ thrown' = ListenerThrown
                /\ LET rest == msgs (-) SetToBag({m})
                       back == [m EXCEPT !.state = "queued",
                                         !.callback = NoCallback,
                                         !.arg = NoPayload, !.failed = TRUE]
                   IN  msgs' \in {rest, rest (+) SetToBag({back})}
          /\ listenerSettles(m, FALSE, FALSE)
             => /\ thrown' = NoError
                /\ msgs' = msgs (-) SetToBag({m})]_vars

C12_Witness ==
    /\ thrown = ListenerThrown
    /\ \E m \in BagToSet(msgs) :
          /\ m.state = "queued"
          /\ m.invoked
          /\ m.failed
          /\ m.origin.via = "direct"

\* C13: once close() has been called, every listenQueue call and every
\* enqueue call throws an error and changes nothing: listeners stays as it
\* is, nothing is staged and nothing reaches the queue.
C13_ClosedRejectsCalls ==
    [][(closed /\ (listenCalls' = listenCalls + 1 \/ lastCall' # NoCall))
       => /\ thrown' # NoError
          /\ UNCHANGED <<listeners, staged, msgs>>]_vars

\* C14: no listener is ever called for a value that reached the queue by a
\* kv.enqueue call made outside the router, whatever the value holds.
C14_RawValuesIgnored ==
    [][\A m \in Running(msgs') \ Running(msgs) : m.origin.via # "raw"]_vars

\* C15: on an instance made with disableListenQueue, kv.listenQueue is never
\* called, whatever listenQueue calls are made; each of them still sets its
\* listener, so that enqueue for the topic passes the pre-check and hands the
\* wrapped payload to kv.enqueue.
C15_DisabledNeverSubscribes ==
    /\ [](disableListenQueue => kvListenCalls = 0)
    /\ [](disableListenQueue
          => \A k \in DOMAIN registered :
                MapGet(listeners, getTopicId(k)) = registered[k])
    /\ [][(disableListenQueue /\ EnqueuedRegistered' /\ ~lastCall'.atomic)
          => /\ thrown' # NoListenerError(getTopicId(lastCall'.topicKey))
             /\ Len(submitted') = 1
             /\ submitted'[1].value.topicKey = lastCall'.topicKey
             /\ submitted'[1].value.payload = lastCall'.payload]_vars

C15_Witness ==
    /\ disableListenQueue
    /\ listenCalls = 2
    /\ kvListenCalls = 0
    /\ EnqueuedRegistered
    /\ ~lastCall.atomic
    /\ Len(submitted) = 1
    /\ submitted[1].answer = "ok"
    /\ thrown = NoError
    /\ msgs # EmptyBag

\* C16: topic keys that listenQueue was called with have the same topic id
\* only if they are the same key, so that listeners holds one entry for each
\* of them and none has replaced another.
C16_DistinctKeysDistinctIds ==
    /\ \A x \in DOMAIN registered, y \in DOMAIN registered :
          getTopicId(x) = getTopicId(y) => x = y
    /\ MapSize(listeners) = Cardinality(DOMAIN registered)

\* C17: a value that enqueue built for a topic key and a payload passes the
\* format check of the callback, and the callback gets from it the topic id
\* enqueue computed for the key, and the payload.
C17_RoundTrip ==
    \A m \in BagToSet(msgs) :
        m.origin.via # "raw"
        => /\ Recognised(m.value)
           /\ Dispatch(m.value).error # UnrecognisedError
           /\ getTopicId(m.value.topicKey) = getTopicId(m.origin.topicKey)
           /\ m.value.payload = m.origin.payload
           /\ m.state = "running" => m.arg = m.origin.payload

C17_Witness ==
    \E m \in Running(msgs) :
        /\ m.origin.topicKey = ArrayTopic(<<NumScalar(<<"1">>), StrScalar(<<"a">>)>>)
        /\ getTopicId(m.value.topicKey) = <<"[", "1", ",", "\"", "a", "\"", "]">>
        /\ m.arg = "p1"

\* C18: a listenQueue call for a topic B made while the callback awaits the
\* listener of a value of another topic A leaves that value with its
\* listener and its payload, the listener still to settle and no other one
\* called, and leaves the entry of A in listeners as it is.
C18_InFlightUnaffected ==
    [][\A m \in Running(msgs) :
          (/\ lastListen' # UndefinedTopic
           /\ getTopicId(lastListen') # getTopicId(m.value.topicKey))
          => /\ BagIn(m, msgs')
             /\ Running(msgs') = Running(msgs)
             /\ MapGet(listeners', getTopicId(m.value.topicKey))
                   = MapGet(listeners, getTopicId(m.value.topicKey))]_vars

C18_Witness ==
    /\ lastListen = TopicB
    /\ \E m \in Running(msgs) :
          /\ m.value.topicKey = TopicA
          /\ m.origin.via = "direct"
          /\ m.callback = MapGet(listeners, getTopicId(TopicA))
          /\ m.arg = m.origin.payload

\* C19: the listeners of one instance do not count for another on the same
\* kv: enqueue on the second instance throws the "No listener" error and
\* sends nothing unless listenQueue was called for the topic on the second
\* instance itself, and its callback calls no listener but the one that was
\* registered on it for the topic, never one of the first instance.
C19_InstancesIndependent ==
    /\ [][\A k \in Topics :
             (k \notin DOMAIN peer.registered /\ peerEnqueue(k, "p2"))
             => /\ peer'.thrown = NoListenerError(getTopicId(k))
                /\ msgs' = msgs]_vars
    /\ [][\A m \in BagToSet(msgs) :
             (peerDeliver(m) /\ peer'.called # NoCallback)
             => /\ peer'.called \notin Callbacks
                /\ m.value.topicKey \in DOMAIN peer.registered
                /\ peer'.called = peer.registered[m.value.topicKey]]_vars
    /\ [][\A m \in Running(msgs') \ Running(msgs) :
             m.callback \notin PeerCallbacks]_vars

C19_Witness ==
    /\ TopicA \in DOMAIN registered
    /\ TopicA \notin DOMAIN peer.registered
    /\ TopicB \in DOMAIN peer.registered
    /\ peer.asked = TopicA
    /\ peer.thrown = NoListenerError(getTopicId(TopicA))

====
